---- MODULE Spec2Model ----
(***************************************************************************)
(* State-machine model of the WL-kappa-map scripts:                        *)
(*   - make_master_cubes_multiproc.py: the batch cube assembler driven by  *)
(*     multiprocessing.Pool.starmap                       (Spec)           *)
(*   - visu_gaussian_blur.py: the slider/text-box widgets  (SpecVisu)      *)
(*   - miu2net/main/model.py: tensor shapes and the fusion (SpecNet)       *)
(***************************************************************************)
EXTENDS Integers, Sequences, FiniteSets, TLC

(***************************************************************************)
(* Bounds of the model.                                                    *)
(***************************************************************************)
MaxFiles == 5
MaxCpu == 2
MaxBatch == 2
MaxMul == 2

(***************************************************************************)
(* Program constants.                                                      *)
(***************************************************************************)
Npix == 512
InDir == "dir"
SaveDir == "save_dir"

VARIABLES
  args,      \* the parsed command line: [bare, have_mcalens, cpu]
  fs,        \* the file system: path -> file content
  fnames,    \* glob.glob1(args.dir, '*.fits')
  mainpc,    \* position of the __main__ block
  taskq,     \* the pool's task queue: chunks of file names not yet taken
  worker,    \* per pool process: the chunk it holds and the position in it
  mapres,    \* the MapResult of the starmap call: [left, success]
  hist       \* per file name: what its make_cube call did

batchVars == <<args, fs, fnames, mainpc, taskq, worker, mapres, hist>>

VARIABLES
  sigma_slider,    \* sigma_slider.val
  rad_slider,      \* rad_slider.val
  sigma_text_box,  \* sigma_text_box.text
  rad_text_box,    \* rad_text_box.text
  im2,             \* the data of the 'Blurred kappa' image: <<sigma, radius>> it was blurred with
  stack,           \* the callbacks in progress, innermost last
  event,           \* the user event being handled or handled last
  pre              \* the widgets as they were when that event arrived

visuVars ==
  <<sigma_slider, rad_slider, sigma_text_box, rad_text_box, im2, stack, event, pre>>

VARIABLES
  net,       \* the network module as constructed, with its training flag
  x_in,      \* the shape of the input tensor
  netpc,     \* "built", then "forwarded"
  result     \* what forward returned

netVars == <<net, x_in, netpc, result>>

(***************************************************************************)
(* numpy arrays and FITS files, as far as the driver looks at them.        *)
(***************************************************************************)
Undef == [kind |-> "undefined"]
IndexErr == [kind |-> "IndexError"]
Absent == [kind |-> "absent"]
Stale == [kind |-> "stale"]

\* plane i of the cube stored in input file f
CubePlane(f, i) ==
  [kind |-> "array", src |-> "cube", file |-> f, idx |-> i,
   shape |-> <<Npix, Npix>>, dtype |-> "float64"]

\* the map an external mass-mapping routine derives from the shear of file f
Derived(routine, f) ==
  [kind |-> "array", src |-> routine, file |-> f, idx |-> -1,
   shape |-> <<Npix, Npix>>, dtype |-> "float64"]

\* cube[i]: indexing past the last plane raises IndexError
GetPlane(f, cube, i) == IF i < cube.nplanes THEN CubePlane(f, i) ELSE IndexErr

\* os.path.join(dir, name) for a relative name
PathJoin(dir, name) == <<dir, name>>

\* np.expand_dims(a, axis=0)
ExpandDims(a) == [a EXCEPT !.shape = <<1>> \o a.shape]

\* np.float32(c)
Float32(c) == [c EXCEPT !.dtype = "float32"]

RECURSIVE SumLeading(_)
SumLeading(arrs) ==
  IF arrs = <<>> THEN 0 ELSE Head(arrs).shape[1] + SumLeading(Tail(arrs))

\* np.concatenate(arrs) along axis 0: the other dimensions must agree
Concatenate(arrs) ==
  IF \A i \in 1..Len(arrs) : Tail(arrs[i].shape) = Tail(arrs[1].shape)
  THEN [kind |-> "cube", shape |-> <<SumLeading(arrs)>> \o Tail(arrs[1].shape),
        dtype |-> "float64",
        planes |-> [i \in 1..Len(arrs) |->
                      [src |-> arrs[i].src, file |-> arrs[i].file,
                       idx |-> arrs[i].idx, shape |-> Tail(arrs[i].shape)]]]
  ELSE [kind |-> "ValueError"]

SaveCubeSwapped(true, ml, ks, wiener, sparse, mcalens, save_dir, save_name) ==
  LET c == Concatenate(<<ExpandDims(ml), ExpandDims(true), ExpandDims(ks),
                         ExpandDims(wiener), ExpandDims(sparse),
                         ExpandDims(mcalens)>>)
  IN IF c.kind = "ValueError"
     THEN [ok |-> FALSE, exc |-> "ValueError"]
     ELSE [ok |-> TRUE, path |-> PathJoin(save_dir, save_name),
           data |-> Float32(c)]

\* save_cube: stack the six planes and write them, overwrite=True
SaveCube(true, ml, ks, wiener, sparse, mcalens, save_dir, save_name) ==
  LET c == Concatenate(<<ExpandDims(true), ExpandDims(ml), ExpandDims(ks),
                         ExpandDims(wiener), ExpandDims(sparse),
                         ExpandDims(mcalens)>>)
  IN IF c.kind = "ValueError"
     THEN [ok |-> FALSE, exc |-> "ValueError"]
     ELSE [ok |-> TRUE, path |-> PathJoin(save_dir, save_name),
           data |-> Float32(c)]

(***************************************************************************)
(* make_cube                                                               *)
(***************************************************************************)
LocalNames ==
  {"shear1", "shear2", "pred", "true", "res", "ks", "wiener", "mcalens", "sparse"}

ReadCubeSwapped(a, f, cube) ==
  LET l0 == [[v \in LocalNames |-> Undef] EXCEPT
               !["shear1"] = GetPlane(f, cube, 0),
               !["shear2"] = GetPlane(f, cube, 1)]
  IN IF a.bare
     THEN [l0 EXCEPT !["pred"] = GetPlane(f, cube, 3),
                     !["true"] = GetPlane(f, cube, 2),
                     !["res"] = GetPlane(f, cube, 4)]
     ELSE LET l1 == [l0 EXCEPT !["ks"] = GetPlane(f, cube, 2),
                               !["wiener"] = GetPlane(f, cube, 3)]
          IN IF a.have_mcalens
             THEN [l1 EXCEPT !["mcalens"] = GetPlane(f, cube, 4),
                             !["pred"] = GetPlane(f, cube, 5),
                             !["true"] = GetPlane(f, cube, 6),
                             !["res"] = GetPlane(f, cube, 7)]
             ELSE [l1 EXCEPT !["pred"] = GetPlane(f, cube, 4),
                             !["true"] = GetPlane(f, cube, 5),
                             !["res"] = GetPlane(f, cube, 6)]

\* the locals make_cube assigns from the cube, by the two flags
ReadCube(a, f, cube) ==
  LET l0 == [[v \in LocalNames |-> Undef] EXCEPT
               !["shear1"] = GetPlane(f, cube, 0),
               !["shear2"] = GetPlane(f, cube, 1)]
  IN IF a.bare
     THEN [l0 EXCEPT !["pred"] = GetPlane(f, cube, 2),
                     !["true"] = GetPlane(f, cube, 3),
                     !["res"] = GetPlane(f, cube, 4)]
     ELSE LET l1 == [l0 EXCEPT !["ks"] = GetPlane(f, cube, 2),
                               !["wiener"] = GetPlane(f, cube, 3)]
          IN IF a.have_mcalens
             THEN [l1 EXCEPT !["mcalens"] = GetPlane(f, cube, 4),
                             !["pred"] = GetPlane(f, cube, 5),
                             !["true"] = GetPlane(f, cube, 6),
                             !["res"] = GetPlane(f, cube, 7)]
             ELSE [l1 EXCEPT !["pred"] = GetPlane(f, cube, 4),
                             !["true"] = GetPlane(f, cube, 5),
                             !["res"] = GetPlane(f, cube, 6)]

DeriveClassicalInverted(a, f, l) ==
  IF ~a.bare
  THEN [locals |-> [l EXCEPT !["ks"] = Derived("g2k", f),
                             !["wiener"] = Derived("wiener", f)],
        calls |-> {"g2k", "wiener"}]
  ELSE [locals |-> l, calls |-> {}]

\* "if args.bare == True": M.g2k and M.wiener
DeriveClassical(a, f, l) ==
  IF a.bare
  THEN [locals |-> [l EXCEPT !["ks"] = Derived("g2k", f),
                             !["wiener"] = Derived("wiener", f)],
        calls |-> {"g2k", "wiener"}]
  ELSE [locals |-> l, calls |-> {}]

\* M.sparse_recons, always; M.sparse_wiener_filtering "if args.have_mcalens == False"
DeriveSparse(a, f, l) ==
  LET l1 == [l EXCEPT !["sparse"] = Derived("sparse_recons", f)]
  IN IF ~a.have_mcalens
     THEN [locals |-> [l1 EXCEPT !["mcalens"] =
                                   Derived("sparse_wiener_filtering", f)],
           calls |-> {"sparse_recons", "sparse_wiener_filtering"}]
     ELSE [locals |-> l1, calls |-> {"sparse_recons"}]

SaveArgs == <<"true", "pred", "ks", "wiener", "sparse", "mcalens">>

\* make_cube(args, fname): what the call does, start to finish
MakeCube(a, f, cube) ==
  LET l0 == ReadCube(a, f, cube)
      consumed == {l0[v].idx : v \in {w \in LocalNames : l0[w].kind = "array"}}
  IN IF \E v \in LocalNames : l0[v] = IndexErr
     THEN [status |-> "raised", exc |-> "IndexError", consumed |-> consumed,
           calls |-> {}, undefined |-> {}, write |-> Absent]
     ELSE
       LET c1 == DeriveClassical(a, f, l0)
           c2 == DeriveSparse(a, f, c1.locals)
           l == c2.locals
           calls == c1.calls \cup c2.calls
           undefined == {SaveArgs[i] : i \in {j \in 1..6 : l[SaveArgs[j]] = Undef}}
       IN IF undefined # {}
          THEN [status |-> "raised", exc |-> "UnboundLocalError",
                consumed |-> consumed, calls |-> calls,
                undefined |-> undefined, write |-> Absent]
          ELSE
            LET s == SaveCube(l["true"], l["pred"], l["ks"], l["wiener"],
                              l["sparse"], l["mcalens"], SaveDir, f)
            IN IF s.ok
               THEN [status |-> "saved", exc |-> "", consumed |-> consumed,
                     calls |-> calls, undefined |-> {}, write |-> s]
               ELSE [status |-> "raised", exc |-> s.exc, consumed |-> consumed,
                     calls |-> calls, undefined |-> {}, write |-> Absent]

(***************************************************************************)
(* multiprocessing.Pool.starmap as __main__ uses it (no chunksize given).  *)
(***************************************************************************)
\* Pool._map_async: chunksize, extra = divmod(len(iterable), len(pool) * 4)
ChunkSize(n, procs) ==
  LET q == n \div (procs * 4)
      r == n % (procs * 4)
  IN IF r # 0 THEN q + 1 ELSE q

RECURSIVE GetTasks(_, _)
\* Pool._get_tasks: successive slices of `size` items
GetTasks(it, size) ==
  IF it = <<>> THEN <<>>
  ELSE IF Len(it) <= size THEN <<it>>
  ELSE <<SubSeq(it, 1, size)>> \o GetTasks(SubSeq(it, size + 1, Len(it)), size)

Idle == [chunk |-> <<>>, pos |-> 0]
NoHist ==
  [status |-> "pending", exc |-> "", consumed |-> {}, calls |-> {},
   undefined |-> {}]

InputCube(n) == [kind |-> "fits", nplanes |-> n]
PlaneCounts == {5, 8}

BatchInit ==
  \E n \in 1..MaxFiles, cpu \in 1..MaxCpu, bare \in BOOLEAN, hm \in BOOLEAN,
     rerun \in BOOLEAN :
    \E counts \in [1..n -> PlaneCounts] :
      /\ args = [bare |-> bare, have_mcalens |-> hm, cpu |-> cpu]
      /\ fs = [p \in {InDir, SaveDir} \X (1..n) |->
                 IF p[1] = InDir THEN InputCube(counts[p[2]])
                 ELSE IF rerun THEN Stale ELSE Absent]
      /\ fnames = <<>>
      /\ mainpc = "start"
      /\ taskq = <<>>
      /\ worker = [w \in 1..cpu |-> Idle]
      /\ mapres = [left |-> 0, success |-> TRUE]
      /\ hist = [f \in 1..n |-> NoHist]

\* __main__: glob the input directory, open the pool, submit the chunks
Submit ==
  /\ mainpc = "start"
  /\ LET names == [i \in 1..Cardinality({p \in DOMAIN fs : p[1] = InDir}) |-> i]
         chunks == GetTasks(names, ChunkSize(Len(names), args.cpu))
     IN /\ fnames' = names
        /\ taskq' = chunks
        /\ mapres' = [left |-> Len(chunks), success |-> TRUE]
  /\ mainpc' = "starmap"
  /\ UNCHANGED <<args, fs, worker, hist, visuVars, netVars>>

\* a pool process takes the next chunk off the task queue
WorkerGet(w) ==
  /\ mainpc = "starmap"
  /\ worker[w] = Idle
  /\ taskq # <<>>
  /\ worker' = [worker EXCEPT ![w] = [chunk |-> Head(taskq), pos |-> 1]]
  /\ taskq' = Tail(taskq)
  /\ UNCHANGED <<args, fs, fnames, mainpc, mapres, hist, visuVars, netVars>>

\* starmapstar: list(itertools.starmap(make_cube, chunk)), one item per step;
\* an exception ends the chunk and is sent back as the chunk's result
WorkerRun(w) ==
  /\ mainpc = "starmap"
  /\ worker[w] # Idle
  /\ LET f == worker[w].chunk[worker[w].pos]
         r == MakeCube(args, f, fs[PathJoin(InDir, f)])
         last == worker[w].pos = Len(worker[w].chunk)
     IN /\ hist' = [hist EXCEPT ![f] =
                      [status |-> r.status, exc |-> r.exc,
                       consumed |-> r.consumed, calls |-> r.calls,
                       undefined |-> r.undefined]]
        /\ fs' = IF r.status = "saved"
                 THEN [fs EXCEPT ![r.write.path] = r.write.data]
                 ELSE fs
        /\ IF r.status = "raised"
           THEN /\ worker' = [worker EXCEPT ![w] = Idle]
                /\ mapres' = [left |-> mapres.left - 1, success |-> FALSE]
           ELSE IF last
           THEN /\ worker' = [worker EXCEPT ![w] = Idle]
                /\ mapres' = [mapres EXCEPT !.left = mapres.left - 1]
           ELSE /\ worker' = [worker EXCEPT ![w].pos = worker[w].pos + 1]
                /\ UNCHANGED mapres
  /\ UNCHANGED <<args, fnames, mainpc, taskq, visuVars, netVars>>

\* MapResult.get once every chunk has reported: return, or re-raise
StarmapReturn ==
  /\ mainpc = "starmap"
  /\ mapres.left = 0
  /\ mainpc' = IF mapres.success THEN "done" ELSE "raised"
  /\ UNCHANGED <<args, fs, fnames, taskq, worker, mapres, hist, visuVars, netVars>>

BatchNext ==
  \/ Submit
  \/ \E w \in DOMAIN worker : WorkerGet(w)
  \/ \E w \in DOMAIN worker : WorkerRun(w)
  \/ StarmapReturn

\* the batch script is not running
BatchOff ==
  /\ args = [bare |-> FALSE, have_mcalens |-> FALSE, cpu |-> 0]
  /\ fs = <<>>
  /\ fnames = <<>>
  /\ mainpc = "off"
  /\ taskq = <<>>
  /\ worker = <<>>
  /\ mapres = [left |-> 0, success |-> TRUE]
  /\ hist = <<>>

(***************************************************************************)
(* visu_gaussian_blur.py (radius_init is not None).                        *)
(* Numbers are held in thousandths, with their Python type: 1 is           *)
(* [ty |-> "int", v |-> 1000], 1.23 is [ty |-> "float", v |-> 1230].       *)
(* A text is the literal of an int ("3"), the repr of a float ("3.0",      *)
(* "1.234") or a string float() rejects.                                   *)
(***************************************************************************)
std_init == [ty |-> "int", v |-> 1000]
radius_init == [ty |-> "int", v |-> 1000]

PyInt(n) == [ty |-> "int", v |-> n]
PyFloat(n) == [ty |-> "float", v |-> n]
BadText == [k |-> "bad", v |-> 0]
IntText(n) == [k |-> "int", v |-> n]
FloatText(n) == [k |-> "float", v |-> n]

\* str(x)
Str(x) == IF x.ty = "int" THEN IntText(x.v) ELSE FloatText(x.v)

\* float(text): a float, or ValueError
CanParse(t) == t.k # "bad"
Float(t) == PyFloat(t.v)

\* round(x, 2) of a float (no value of the model lies on a tie)
Round2(x) == PyFloat(((x.v + 5) \div 10) * 10)

\* int(x): truncation (the model holds no negative number)
IntOf(x) == PyInt((x.v \div 1000) * 1000)

\* ndimage.gaussian_filter(img, sigma=sigma, radius=radius, order=0), by its parameters
GaussianFilter(sigma, radius) == <<sigma.v, radius.v>>

\* what the user can do: slider positions inside [valmin, valmax] and texts typed
SigmaDrags == {1234, 2500}
RadDrags == {2000, 3700}
SigmaTyped == {FloatText(2500), FloatText(1236), IntText(3000), BadText}
RadTyped == {IntText(5000), FloatText(3700), BadText}

Snapshot ==
  [sigma_slider |-> sigma_slider, rad_slider |-> rad_slider,
   sigma_text_box |-> sigma_text_box, rad_text_box |-> rad_text_box, im2 |-> im2]

SliderFrame == [fn |-> "update_slider", pc |-> 1, sigma |-> PyInt(0), radius |-> PyInt(0)]
TextFrame == [fn |-> "update_text_box", pc |-> 1, sigma |-> PyInt(0), radius |-> PyInt(0)]
Top == stack[Len(stack)]
SetTop(fr) == [stack EXCEPT ![Len(stack)] = fr]
Quiescent == stack = <<>>

VisuInit ==
  /\ sigma_slider = std_init
  /\ rad_slider = radius_init
  /\ sigma_text_box = Str(std_init)
  /\ rad_text_box = Str(radius_init)
  /\ im2 = GaussianFilter(std_init, radius_init)
  /\ stack = <<>>
  /\ event = [kind |-> "none", val |-> 0, text |-> BadText]
  /\ pre = [sigma_slider |-> std_init, rad_slider |-> radius_init,
            sigma_text_box |-> Str(std_init), rad_text_box |-> Str(radius_init),
            im2 |-> GaussianFilter(std_init, radius_init)]

\* Slider._update on a mouse drag: set_val(val) when val differs from self.val,
\* and set_val calls the 'changed' observers
MoveSigmaSlider(V) ==
  /\ Quiescent
  /\ V # sigma_slider.v
  /\ sigma_slider' = PyFloat(V)
  /\ stack' = <<SliderFrame>>
  /\ event' = [kind |-> "move_sigma", val |-> V, text |-> BadText]
  /\ pre' = Snapshot
  /\ UNCHANGED <<rad_slider, sigma_text_box, rad_text_box, im2, batchVars, netVars>>

MoveRadSlider(V) ==
  /\ Quiescent
  /\ V # rad_slider.v
  /\ rad_slider' = PyFloat(V)
  /\ stack' = <<SliderFrame>>
  /\ event' = [kind |-> "move_rad", val |-> V, text |-> BadText]
  /\ pre' = Snapshot
  /\ UNCHANGED <<sigma_slider, sigma_text_box, rad_text_box, im2, batchVars, netVars>>

\* the user types t in a text box and presses enter: the 'submit' observers run
SubmitSigmaText(t) ==
  /\ Quiescent
  /\ sigma_text_box' = t
  /\ stack' = <<TextFrame>>
  /\ event' = [kind |-> "submit_sigma", val |-> 0, text |-> t]
  /\ pre' = Snapshot
  /\ UNCHANGED <<sigma_slider, rad_slider, rad_text_box, im2, batchVars, netVars>>

SubmitRadText(t) ==
  /\ Quiescent
  /\ rad_text_box' = t
  /\ stack' = <<TextFrame>>
  /\ event' = [kind |-> "submit_rad", val |-> 0, text |-> t]
  /\ pre' = Snapshot
  /\ UNCHANGED <<sigma_slider, rad_slider, sigma_text_box, im2, batchVars, netVars>>

\* update_slider re-running update_text_box whether or not the text changed
UpdateSliderBlurAlwaysSubmits ==
  /\ stack # <<>> /\ Top.fn = "update_slider" /\ Top.pc = 1
  /\ LET sigma == sigma_slider
         radius == IntOf(rad_slider)
         fr == [Top EXCEPT !.pc = 2, !.sigma = sigma, !.radius = radius]
     IN /\ im2' = GaussianFilter(sigma, radius)
        /\ sigma_text_box' = Str(sigma)
        /\ stack' = Append(SetTop(fr), TextFrame)
  /\ UNCHANGED <<sigma_slider, rad_slider, rad_text_box, event, pre, batchVars, netVars>>

\* update_slider, lines 49-54: read both sliders, blur, im2.set_data, then
\* sigma_text_box.set_val(str(sigma)); TextBox.set_val returns at once when the
\* text is the same and calls the 'submit' observers when it is not
UpdateSliderBlur ==
  /\ stack # <<>> /\ Top.fn = "update_slider" /\ Top.pc = 1
  /\ LET sigma == sigma_slider
         radius == IntOf(rad_slider)
         fr == [Top EXCEPT !.pc = 2, !.sigma = sigma, !.radius = radius]
     IN /\ im2' = GaussianFilter(sigma, radius)
        /\ IF sigma_text_box = Str(sigma)
           THEN /\ stack' = SetTop(fr)
                /\ UNCHANGED sigma_text_box
           ELSE /\ sigma_text_box' = Str(sigma)
                /\ stack' = Append(SetTop(fr), TextFrame)
  /\ UNCHANGED <<sigma_slider, rad_slider, rad_text_box, event, pre, batchVars, netVars>>

\* update_slider, line 55: rad_text_box.set_val(str(radius))
UpdateSliderRadText ==
  /\ stack # <<>> /\ Top.fn = "update_slider" /\ Top.pc = 2
  /\ LET fr == [Top EXCEPT !.pc = 3]
     IN IF rad_text_box = Str(Top.radius)
        THEN /\ stack' = SetTop(fr)
             /\ UNCHANGED rad_text_box
        ELSE /\ rad_text_box' = Str(Top.radius)
             /\ stack' = Append(SetTop(fr), TextFrame)
  /\ UNCHANGED <<sigma_slider, rad_slider, sigma_text_box, im2, event, pre, batchVars, netVars>>

\* update_slider, line 56: draw_idle and return
UpdateSliderReturn ==
  /\ stack # <<>> /\ Top.fn = "update_slider" /\ Top.pc = 3
  /\ stack' = SubSeq(stack, 1, Len(stack) - 1)
  /\ UNCHANGED <<sigma_slider, rad_slider, sigma_text_box, rad_text_box, im2,
                 event, pre, batchVars, netVars>>

\* update_text_box, lines 64-65: a sigma text float() rejects ends the try
\* block; otherwise sigma_slider.set_val(round(sigma, 2)) calls update_slider
UpdateTextBoxSigma ==
  /\ stack # <<>> /\ Top.fn = "update_text_box" /\ Top.pc = 1
  /\ IF CanParse(sigma_text_box)
     THEN /\ sigma_slider' = Round2(Float(sigma_text_box))
          /\ stack' = Append(SetTop([Top EXCEPT !.pc = 2]), SliderFrame)
     ELSE /\ stack' = SetTop([Top EXCEPT !.pc = 3])
          /\ UNCHANGED sigma_slider
  /\ UNCHANGED <<rad_slider, sigma_text_box, rad_text_box, im2, event, pre, batchVars, netVars>>

\* update_text_box, lines 66-67: the same for the radius text and slider
UpdateTextBoxRad ==
  /\ stack # <<>> /\ Top.fn = "update_text_box" /\ Top.pc = 2
  /\ IF CanParse(rad_text_box)
     THEN /\ rad_slider' = Round2(Float(rad_text_box))
          /\ stack' = Append(SetTop([Top EXCEPT !.pc = 3]), SliderFrame)
     ELSE /\ stack' = SetTop([Top EXCEPT !.pc = 3])
          /\ UNCHANGED rad_slider
  /\ UNCHANGED <<sigma_slider, sigma_text_box, rad_text_box, im2, event, pre, batchVars, netVars>>

\* update_text_box, lines 68-70: except: pass, draw_idle and return
UpdateTextBoxReturn ==
  /\ stack # <<>> /\ Top.fn = "update_text_box" /\ Top.pc = 3
  /\ stack' = SubSeq(stack, 1, Len(stack) - 1)
  /\ UNCHANGED <<sigma_slider, rad_slider, sigma_text_box, rad_text_box, im2,
                 event, pre, batchVars, netVars>>

VisuNext ==
  \/ \E V \in SigmaDrags : MoveSigmaSlider(V)
  \/ \E V \in RadDrags : MoveRadSlider(V)
  \/ \E t \in SigmaTyped : SubmitSigmaText(t)
  \/ \E t \in RadTyped : SubmitRadText(t)
  \/ UpdateSliderBlur
  \/ UpdateSliderRadText
  \/ UpdateSliderReturn
  \/ UpdateTextBoxSigma
  \/ UpdateTextBoxRad
  \/ UpdateTextBoxReturn

\* one step of a running callback; a callback that has been called runs on
\* to its return, the event loop taking no new event meanwhile
CallbackStep ==
  \/ UpdateSliderBlur
  \/ UpdateSliderRadText
  \/ UpdateSliderReturn
  \/ UpdateTextBoxSigma
  \/ UpdateTextBoxRad
  \/ UpdateTextBoxReturn

\* the visualizer is not running
VisuOff ==
  /\ sigma_slider = std_init
  /\ rad_slider = radius_init
  /\ sigma_text_box = Str(std_init)
  /\ rad_text_box = Str(radius_init)
  /\ im2 = <<0, 0>>
  /\ stack = <<>>
  /\ event = [kind |-> "off", val |-> 0, text |-> BadText]
  /\ pre = <<>>

(***************************************************************************)
(* miu2net/main/model.py: tensors by their shape (b, c, h, w); an          *)
(* operation the framework rejects yields an error, which propagates.      *)
(***************************************************************************)
Err(msg) == [err |-> msg]
IsErr(x) == "err" \in DOMAIN x
Tensor(b, c, h, w) == [b |-> b, c |-> c, h |-> h, w |-> w]

\* how a call of forward ends
Raise(e) == [raised |-> TRUE, exc |-> e.err, ret |-> <<>>]
Return(v) == [raised |-> FALSE, exc |-> "", ret |-> v]

\* nn.Conv2d(in_ch, out_ch, kernel_size=k, padding=p, dilation=dil), stride 1
Conv2d(in_ch, out_ch, k, p, dil, x) ==
  IF IsErr(x) THEN x
  ELSE IF x.c # in_ch THEN Err("conv2d: input channels")
  ELSE LET h == x.h + 2 * p - dil * (k - 1)
           w == x.w + 2 * p - dil * (k - 1)
       IN IF h < 1 \/ w < 1 THEN Err("conv2d: output size")
          ELSE Tensor(x.b, out_ch, h, w)

\* nn.BatchNorm2d(num_features): in training mode it refuses an input with a
\* single value per channel
BatchNorm2d(num_features, training, x) ==
  IF IsErr(x) THEN x
  ELSE IF x.c # num_features THEN Err("batch_norm: num_features")
  ELSE IF training /\ x.b * x.h * x.w = 1
       THEN Err("batch_norm: more than 1 value per channel expected when training")
  ELSE x

\* F.avg_pool2d(x, kernel_size=2, stride=2, ceil_mode=True)
AvgPoolCeil(x) ==
  IF IsErr(x) THEN x ELSE Tensor(x.b, x.c, (x.h + 1) \div 2, (x.w + 1) \div 2)

\* nn.AvgPool2d(kernel_size=2, stride=2)
AvgPoolFloor(x) ==
  IF IsErr(x) THEN x
  ELSE IF x.h < 2 \/ x.w < 2 THEN Err("avg_pool2d: output size")
  ELSE Tensor(x.b, x.c, x.h \div 2, x.w \div 2)

\* F.interpolate(x, size=[h, w]) and torchvision resize(x, size=[h, w])
Interpolate(x, h, w) ==
  IF IsErr(x) THEN x
  ELSE IF h < 1 \/ w < 1 THEN Err("interpolate: output size")
  ELSE Tensor(x.b, x.c, h, w)

\* nn.Upsample(scale_factor=2)
Upsample(x) == IF IsErr(x) THEN x ELSE Tensor(x.b, x.c, 2 * x.h, 2 * x.w)

\* torch.cat([x1, x2], dim=1)
Cat(x1, x2) ==
  IF IsErr(x1) THEN x1
  ELSE IF IsErr(x2) THEN x2
  ELSE IF x1.b # x2.b \/ x1.h # x2.h \/ x1.w # x2.w THEN Err("cat: sizes")
  ELSE Tensor(x1.b, x1.c + x2.c, x1.h, x1.w)

BroadcastDim(m, n) == IF m = n \/ n = 1 THEN m ELSE IF m = 1 THEN n ELSE 0

\* x + y, with broadcasting
Add(x, y) ==
  IF IsErr(x) THEN x
  ELSE IF IsErr(y) THEN y
  ELSE LET t == Tensor(BroadcastDim(x.b, y.b), BroadcastDim(x.c, y.c),
                       BroadcastDim(x.h, y.h), BroadcastDim(x.w, y.w))
       IN IF 0 \in {t.b, t.c, t.h, t.w} THEN Err("add: sizes") ELSE t

\* ConvBNReLU: kernel 3, padding = kernel_size // 2 if dilation == 1 else dilation
ConvBNReLU(in_ch, out_ch, dil, tr, x) ==
  BatchNorm2d(out_ch, tr,
              Conv2d(in_ch, out_ch, 3, IF dil = 1 THEN 3 \div 2 ELSE dil, dil, x))

DownConvBNReLU(in_ch, out_ch, flag, tr, x) ==
  ConvBNReLU(in_ch, out_ch, 1, tr, IF flag THEN AvgPoolCeil(x) ELSE x)

UpConvBNReLU(in_ch, out_ch, flag, tr, x1, x2) ==
  ConvBNReLU(in_ch, out_ch, 1, tr,
             Cat(IF flag /\ ~IsErr(x2) THEN Interpolate(x1, x2.h, x2.w) ELSE x1, x2))

RECURSIVE RSUEncode(_, _, _, _, _, _)
\* RSU.forward, the loop over encode_modules: outs is encode_outputs
RSUEncode(height, mid_ch, out_ch, tr, x, outs) ==
  LET i == Len(outs) + 1
      y == IF i = 1 THEN DownConvBNReLU(out_ch, mid_ch, FALSE, tr, x)
           ELSE IF i < height THEN DownConvBNReLU(mid_ch, mid_ch, TRUE, tr, x)
           ELSE ConvBNReLU(mid_ch, mid_ch, 2, tr, x)
  IN IF i > height THEN outs
     ELSE RSUEncode(height, mid_ch, out_ch, tr, y, Append(outs, y))

RECURSIVE RSUDecode(_, _, _, _, _, _, _)
\* RSU.forward, the loop over decode_modules: the j-th module takes x and
\* the j-th pop of encode_outputs
RSUDecode(height, mid_ch, out_ch, tr, encode_outputs, x, j) ==
  IF j > height - 1 THEN x
  ELSE RSUDecode(height, mid_ch, out_ch, tr, encode_outputs,
                 UpConvBNReLU(mid_ch * 2,
                              IF j = 1 \/ j - 2 < height - 3 THEN mid_ch ELSE out_ch,
                              j # 1, tr, x, encode_outputs[height - j]),
                 j + 1)

\* RSU.__init__ and RSU.forward
RSU(height, in_ch, mid_ch, out_ch, tr, x) ==
  LET x_in0 == ConvBNReLU(in_ch, out_ch, 1, tr, x)
      encode_outputs == RSUEncode(height, mid_ch, out_ch, tr, x_in0, <<>>)
  IN Add(RSUDecode(height, mid_ch, out_ch, tr, encode_outputs,
                   encode_outputs[height], 1),
         x_in0)

\* RSU4F.__init__ and RSU4F.forward
RSU4F(in_ch, mid_ch, out_ch, tr, x) ==
  LET x0 == ConvBNReLU(in_ch, out_ch, 1, tr, x)
      e1 == ConvBNReLU(out_ch, mid_ch, 1, tr, x0)
      e2 == ConvBNReLU(mid_ch, mid_ch, 2, tr, e1)
      e3 == ConvBNReLU(mid_ch, mid_ch, 4, tr, e2)
      e4 == ConvBNReLU(mid_ch, mid_ch, 8, tr, e3)
      d1 == ConvBNReLU(mid_ch * 2, mid_ch, 4, tr, Cat(e4, e3))
      d2 == ConvBNReLU(mid_ch * 2, mid_ch, 2, tr, Cat(d1, e2))
      d3 == ConvBNReLU(mid_ch * 2, out_ch, 1, tr, Cat(d2, e1))
  IN Add(d3, x0)

\* one row of cfg: [height, in_ch, mid_ch, out_ch, RSU4F, side]
Row(height, in_ch, mid_ch, out_ch, rsu4f, side) ==
  [height |-> height, in_ch |-> in_ch, mid_ch |-> mid_ch, out_ch |-> out_ch,
   rsu4f |-> rsu4f, side |-> side]

U2NetFullCfgNarrowDe3(in_ch) ==
  [encode |-> <<Row(7, in_ch, 32, 64, FALSE, FALSE),
                Row(6, 64, 32, 128, FALSE, FALSE),
                Row(5, 128, 64, 256, FALSE, FALSE),
                Row(4, 256, 128, 512, FALSE, FALSE),
                Row(4, 512, 256, 512, TRUE, FALSE),
                Row(4, 512, 256, 512, TRUE, TRUE)>>,
   decode |-> <<Row(4, 1024, 256, 512, TRUE, TRUE),
                Row(4, 1024, 128, 256, FALSE, TRUE),
                Row(5, 256, 64, 128, FALSE, TRUE),
                Row(6, 256, 32, 64, FALSE, TRUE),
                Row(7, 128, 16, 64, FALSE, TRUE)>>]

\* the cfg of u2net_full
U2NetFullCfg(in_ch) ==
  [encode |-> <<Row(7, in_ch, 32, 64, FALSE, FALSE),
                Row(6, 64, 32, 128, FALSE, FALSE),
                Row(5, 128, 64, 256, FALSE, FALSE),
                Row(4, 256, 128, 512, FALSE, FALSE),
                Row(4, 512, 256, 512, TRUE, FALSE),
                Row(4, 512, 256, 512, TRUE, TRUE)>>,
   decode |-> <<Row(4, 1024, 256, 512, TRUE, TRUE),
                Row(4, 1024, 128, 256, FALSE, TRUE),
                Row(5, 512, 64, 128, FALSE, TRUE),
                Row(6, 256, 32, 64, FALSE, TRUE),
                Row(7, 128, 16, 64, FALSE, TRUE)>>]

IsSide(c) == c.side

OutConvInitZeros == [w |-> [i \in 1..6 |-> <<0, 1>>], b |-> <<0, 1>>]

\* U2Net.__init__, lines 139-144: out_conv's weight is a [1, 6, 1, 1] tensor
\* of 1/6 and its bias 0 (numbers as <<numerator, denominator>>)
OutConvInit == [w |-> [i \in 1..6 |-> <<1, 6>>], b |-> <<0, 1>>]

\* U2Net.__init__
U2Net(cfg, out_ch, mode) ==
  [kind |-> "U2Net", mode |-> mode, cfg |-> cfg, out_ch |-> out_ch,
   encode_num |-> Len(cfg.encode),
   side_modules |-> SelectSeq(cfg.encode, IsSide) \o SelectSeq(cfg.decode, IsSide),
   out_conv |-> OutConvInit, training |-> TRUE]

\* u2net_full(out_ch, in_ch, mode)
u2net_full(out_ch, in_ch, mode) == U2Net(U2NetFullCfg(in_ch), out_ch, mode)

\* UNetDeepMass.__init__
UNetDeepMass(channels) ==
  [kind |-> "UNetDeepMass", channels |-> channels, training |-> TRUE]

Block(c, tr, x) ==
  IF c.rsu4f THEN RSU4F(c.in_ch, c.mid_ch, c.out_ch, tr, x)
  ELSE RSU(c.height, c.in_ch, c.mid_ch, c.out_ch, tr, x)

RECURSIVE CatAll(_)
\* torch.concat(list, dim=1)
CatAll(xs) == IF Len(xs) = 1 THEN xs[1] ELSE Cat(xs[1], CatAll(Tail(xs)))

Reverse(xs) == [i \in 1..Len(xs) |-> xs[Len(xs) + 1 - i]]
AnyErr(xs) == \E i \in 1..Len(xs) : IsErr(xs[i])
FirstErr(xs) == xs[CHOOSE i \in 1..Len(xs) : IsErr(xs[i])]

RECURSIVE Pow2(_)
Pow2(n) == IF n = 0 THEN 1 ELSE 2 * Pow2(n - 1)

RECURSIVE U2NetEncode(_, _, _)
\* U2Net.forward, the loop over encode_modules: outs is encode_outputs, x
\* the tensor handed to the next stage
U2NetEncode(m, x, outs) ==
  LET i == Len(outs) + 1
      y == Block(m.cfg.encode[i], m.training, x)
  IN IF i > m.encode_num THEN outs
     ELSE U2NetEncode(m, IF i # m.encode_num THEN AvgPoolCeil(y) ELSE y,
                      Append(outs, y))

RECURSIVE U2NetDecodeLoop(_, _, _)
\* U2Net.forward, the loop over decode_modules: outs is decode_outputs in
\* the order it is popped later (En6 first, then De5 .. De1, the last on top)
U2NetDecodeLoop(m, encode_outputs, outs) ==
  LET j == Len(outs)
      x == outs[j]
      x2 == encode_outputs[m.encode_num - j]
      y == IF m.encode_num - j < 1 THEN Err("pop from empty list")
           ELSE IF IsErr(x2) THEN x2
           ELSE Block(m.cfg.decode[j], m.training,
                      Cat(Interpolate(x, x2.h, x2.w), x2))
  IN IF j > Len(m.cfg.decode) THEN outs
     ELSE U2NetDecodeLoop(m, encode_outputs, Append(outs, y))

\* x = encode_outputs.pop(); decode_outputs = [x]; then the loop
U2NetDecode(m, encode_outputs) ==
  U2NetDecodeLoop(m, encode_outputs, <<encode_outputs[m.encode_num]>>)

RECURSIVE Sides(_, _, _, _, _)
\* U2Net.forward, the loop over side_modules: the k-th module takes the
\* k-th pop of decode_outputs; its output, resized, is inserted at the front
Sides(m, decode_outputs, h, w, outs) ==
  LET k == Len(outs) + 1
      n == Len(decode_outputs)
      size == IF m.mode = "1x1conv" THEN <<h, w>>
              ELSE <<h \div Pow2(5 - (k - 1)), w \div Pow2(5 - (k - 1))>>
      y == IF k > n THEN Err("pop from empty list")
           ELSE Interpolate(Conv2d(m.side_modules[k].out_ch, m.out_ch, 3, 1, 1,
                                   decode_outputs[n + 1 - k]),
                            size[1], size[2])
  IN IF k > Len(m.side_modules) THEN outs
     ELSE Sides(m, decode_outputs, h, w, <<y>> \o outs)

RECURSIVE Collapse(_, _, _)
\* the loop over reversed(lap_pyramid[:-1])
Collapse(lap_pyramid, x, i) ==
  IF i < 1 THEN x
  ELSE Collapse(lap_pyramid,
                Add(Interpolate(x, lap_pyramid[i].h, lap_pyramid[i].w), lap_pyramid[i]),
                i - 1)

\* U2Net.forward after the side modules: the fusion and the return
U2NetFuse(m, popped, side_outputs) ==
  LET ns == Len(side_outputs)
      fused == IF m.mode = "1x1conv"
               THEN Conv2d(Len(m.out_conv.w), 1, 1, 0, 1, CatAll(side_outputs))
               ELSE Collapse(side_outputs, side_outputs[ns], ns - 1)
  IN IF AnyErr(popped) THEN Raise(FirstErr(popped))
     ELSE IF AnyErr(side_outputs) THEN Raise(FirstErr(side_outputs))
     ELSE IF IsErr(fused) THEN Raise(fused)
     ELSE Return(<<fused>> \o side_outputs)

\* U2Net.forward after the decoder: the side modules, then the fusion
U2NetSide(m, x, popped) ==
  U2NetFuse(m, popped, Sides(m, Reverse(popped), x.h, x.w, <<>>))

\* U2Net.forward: the list it returns (shapes), or the error it raises
U2NetForward(m, x) == U2NetSide(m, x, U2NetDecode(m, U2NetEncode(m, x, <<>>)))

\* UNetDeepMass.forward
UNetDeepMassForward(m, x) ==
  LET tr == m.training
      x1 == BatchNorm2d(16, tr, Conv2d(m.channels[1], 16, 3, 1, 1, x))
      x2 == BatchNorm2d(32, tr, Conv2d(16, 32, 3, 1, 1, AvgPoolFloor(x1)))
      x3 == BatchNorm2d(64, tr, Conv2d(32, 64, 3, 1, 1, AvgPoolFloor(x2)))
      x4 == BatchNorm2d(64, tr, Conv2d(64, 64, 3, 1, 1, AvgPoolFloor(x3)))
      xdeep == BatchNorm2d(64, tr, Conv2d(64, 64, 3, 1, 1, AvgPoolFloor(x4)))
      mergedeep == Cat(x4, Upsample(xdeep))
      xdeep2 == BatchNorm2d(64, tr, Conv2d(128, 64, 3, 1, 1, mergedeep))
      merge5 == BatchNorm2d(128, tr, Cat(x3, Upsample(xdeep2)))
      x5 == Conv2d(128, 64, 3, 1, 1, merge5)
      merge6 == BatchNorm2d(96, tr, Cat(x2, Upsample(x5)))
      x6 == Conv2d(96, 32, 3, 1, 1, merge6)
      merge7 == BatchNorm2d(48, tr, Cat(x1, Upsample(x6)))
      x7 == Conv2d(48, 16, 3, 1, 1, merge7)
      output == Conv2d(16, m.channels[2], 1, 0, 1, x7)
  IN IF IsErr(output) THEN Raise(output) ELSE Return(<<output>>)

(***************************************************************************)
(* The fused pixel: out_conv applied to the side outputs at one pixel.     *)
(***************************************************************************)
RatAdd(p, q) == <<p[1] * q[2] + q[1] * p[2], p[2] * q[2]>>
RatScale(p, n) == <<p[1] * n, p[2]>>
RatEq(p, q) == p[1] * q[2] = q[1] * p[2]

RECURSIVE Dot(_, _, _)
\* sum over the first n channels of weight * value
Dot(ws, vs, n) ==
  IF n = 0 THEN <<0, 1>> ELSE RatAdd(Dot(ws, vs, n - 1), RatScale(ws[n], vs[n]))

\* self.out_conv(torch.concat(side_outputs, dim=1)) at one pixel
OutConvPixel(oc, vs) == RatAdd(Dot(oc.w, vs, Len(oc.w)), oc.b)

RECURSIVE SumSeq(_, _)
SumSeq(vs, n) == IF n = 0 THEN 0 ELSE SumSeq(vs, n - 1) + vs[n]

\* values a side output can take at the pixel looked at
PixVals == {-1, 0, 2}

NetInit ==
  /\ netpc = "built"
  /\ result = <<>>
  /\ \E b \in 1..MaxBatch, c \in {1, 2}, kh \in 1..MaxMul, kw \in 1..MaxMul :
       x_in = Tensor(b, c, 32 * kh, 32 * kw)
  /\ \/ \E mode \in {"1x1conv", "laplacian_pyr"} : net = u2net_full(1, 2, mode)
     \/ net = UNetDeepMass(<<1, 1>>)

\* nn.Module.eval()
Eval ==
  /\ netpc = "built"
  /\ net.training
  /\ net' = [net EXCEPT !.training = FALSE]
  /\ UNCHANGED <<x_in, netpc, result, batchVars, visuVars>>

\* net(x) for a U2Net; in '1x1conv' mode the side outputs' values at one
\* pixel are whatever the untrained stages produce
ForwardU2Net ==
  /\ netpc = "built"
  /\ net.kind = "U2Net"
  /\ LET out == U2NetForward(net, x_in)
     IN IF out.raised \/ net.mode # "1x1conv"
        THEN result' = [out |-> out, sides |-> <<>>, fused |-> <<0, 1>>]
        ELSE \E vs \in [1..(Len(out.ret) - 1) -> PixVals] :
               result' = [out |-> out, sides |-> vs,
                          fused |-> OutConvPixel(net.out_conv, vs)]
  /\ netpc' = "forwarded"
  /\ UNCHANGED <<net, x_in, batchVars, visuVars>>

\* net(x) for a UNetDeepMass
ForwardDeepMass ==
  /\ netpc = "built"
  /\ net.kind = "UNetDeepMass"
  /\ result' = [out |-> UNetDeepMassForward(net, x_in), sides |-> <<>>,
                fused |-> <<0, 1>>]
  /\ netpc' = "forwarded"
  /\ UNCHANGED <<net, x_in, batchVars, visuVars>>

NetNext == Eval \/ ForwardU2Net \/ ForwardDeepMass

\* no network is built
NetOff ==
  /\ net = [kind |-> "none", training |-> FALSE]
  /\ x_in = Tensor(0, 0, 0, 0)
  /\ netpc = "off"
  /\ result = <<>>

(***************************************************************************)
(* Claims about the batch driver (checked under Spec).                     *)
(***************************************************************************)
Finished == mainpc \in {"done", "raised"}
RaisedTasks == {f \in DOMAIN hist : hist[f].status = "raised"}
SavedTasks == {f \in DOMAIN hist : hist[f].status = "saved"}
OutFile(f) == fs[PathJoin(SaveDir, f)]
Written(f) == OutFile(f).kind = "cube"
\* the task read every plane it asked for
PastRead(f) == hist[f].status # "pending" /\ hist[f].exc # "IndexError"

\* the input files on which make_cube raises
Faulty ==
  {f \in DOMAIN hist : MakeCube(args, f, fs[PathJoin(InDir, f)]).status = "raised"}

\* C1 (as claimed): when exactly one input file makes its task raise, then
\* once starmap has ended the output file of every other input file has
\* been written, whatever the batch size and the pool size.
C1_FaultIsolation ==
  (Finished /\ Cardinality(Faulty) = 1)
    => \A f \in DOMAIN hist \ Faulty : Written(f)

\* C2: a task that read its cube consumed exactly planes 0..4 (bare),
\* 0..6 (not bare, no mcalens) or 0..7 (not bare, mcalens), and a written
\* cube holds input plane 3 / 5 / 6 as its 'true' entry and input plane
\* 2 / 4 / 5 as its 'predicted' entry.
C2_PlaneSelection ==
  \A f \in DOMAIN hist :
    /\ PastRead(f) =>
         hist[f].consumed = (IF args.bare THEN 0..4
                             ELSE IF args.have_mcalens THEN 0..7 ELSE 0..6)
    /\ hist[f].status = "saved" =>
         /\ OutFile(f).planes[1].src = "cube"
         /\ OutFile(f).planes[1].file = f
         /\ OutFile(f).planes[1].idx = (IF args.bare THEN 3
                                        ELSE IF args.have_mcalens THEN 6 ELSE 5)
         /\ OutFile(f).planes[2].src = "cube"
         /\ OutFile(f).planes[2].file = f
         /\ OutFile(f).planes[2].idx = (IF args.bare THEN 2
                                        ELSE IF args.have_mcalens THEN 5 ELSE 4)

\* C2 witness: a bare-mode task wrote its cube from an 8-plane input, so
\* planes 5..7 were there and were not consumed.
C2_Witness ==
  \E f \in SavedTasks :
    args.bare /\ fs[PathJoin(InDir, f)].nplanes = 8 /\ hist[f].consumed = 0..4

\* C3: every cube save_cube wrote sits at <save_dir>/<input file name>, has
\* exactly 6 leading entries in the order true, predicted, direct inversion,
\* Wiener, sparse, combined, each of the shape of the plane it was given,
\* and stands in place of whatever file was there; no other path changed.
C3_CubeAssembly ==
  /\ \A f \in SavedTasks :
       LET out == OutFile(f)
           pl == out.planes
       IN /\ out.kind = "cube"
          /\ out.shape = <<6, Npix, Npix>>
          /\ DOMAIN pl = 1..6
          /\ \A i \in 1..6 : pl[i].file = f /\ pl[i].shape = <<Npix, Npix>>
          /\ pl[1].src = "cube" /\ pl[2].src = "cube" /\ pl[1].idx = pl[2].idx + 1
          /\ \/ pl[3].src = "g2k"
             \/ pl[3].src = "cube" /\ pl[3].idx = 2
          /\ \/ pl[4].src = "wiener"
             \/ pl[4].src = "cube" /\ pl[4].idx = 3
          /\ pl[5].src = "sparse_recons"
          /\ \/ pl[6].src = "sparse_wiener_filtering"
             \/ pl[6].src = "cube" /\ pl[6].idx = 4
  /\ \A p \in DOMAIN fs :
       \/ p[1] = InDir /\ fs[p].kind = "fits"
       \/ p[1] = SaveDir /\ p[2] \in SavedTasks
       \/ p[1] = SaveDir /\ fs[p] \in {Stale, Absent}

\* C3 witness: a cube was written over a file that was already there (the
\* output of another input, not yet rewritten, is still the old file).
C3_Witness ==
  \E f \in SavedTasks, g \in DOMAIN hist :
    Written(f) /\ hist[g].status = "pending" /\ OutFile(g) = Stale

\* C4 (as claimed): with bare set the direct-inversion and Wiener entries
\* come from the input cube and g2k / wiener are not called; with bare not
\* set they are called.
C4_BareSkipsClassical ==
  \A f \in DOMAIN hist :
    PastRead(f) =>
      IF args.bare
      THEN /\ hist[f].calls \cap {"g2k", "wiener"} = {}
           /\ hist[f].status = "saved" =>
                OutFile(f).planes[3].src = "cube" /\ OutFile(f).planes[4].src = "cube"
      ELSE {"g2k", "wiener"} \subseteq hist[f].calls

\* C4 (amended): with bare set g2k and wiener are called and the written
\* cube's direct-inversion and Wiener entries are their results; with bare
\* not set neither is called and the two entries are input planes 2 and 3.
C4_BareDerivesClassical ==
  \A f \in DOMAIN hist :
    PastRead(f) =>
      IF args.bare
      THEN /\ {"g2k", "wiener"} \subseteq hist[f].calls
           /\ hist[f].status = "saved" =>
                OutFile(f).planes[3].src = "g2k" /\ OutFile(f).planes[4].src = "wiener"
      ELSE /\ hist[f].calls \cap {"g2k", "wiener"} = {}
           /\ hist[f].status = "saved" =>
                /\ OutFile(f).planes[3].src = "cube" /\ OutFile(f).planes[3].idx = 2
                /\ OutFile(f).planes[4].src = "cube" /\ OutFile(f).planes[4].idx = 3

\* C4 witness: a bare-mode task has written its cube.
C4_Witness == \E f \in SavedTasks : args.bare /\ Written(f) /\ "g2k" \in hist[f].calls

\* C10 (as claimed): a task whose cube has the planes its flags ask for
\* reaches save_cube with all six arguments assigned, and saves.
C10_AllSixAssigned ==
  \A f \in DOMAIN hist :
    PastRead(f) => hist[f].undefined = {} /\ hist[f].status = "saved"

(***************************************************************************)
(* Claims about the visualizer (checked under SpecVisu).                   *)
(***************************************************************************)
\* C5 (as claimed): once the callbacks of a sigma-slider move to V have
\* finished, the sigma text is str(V), the sigma slider holds V, and the
\* radius slider value and radius text are what they were before the move.
C5_SliderToText ==
  (Quiescent /\ event.kind = "move_sigma") =>
    /\ sigma_text_box = Str(PyFloat(event.val))
    /\ sigma_slider.v = event.val
    /\ rad_slider.v = pre.rad_slider.v
    /\ rad_text_box = pre.rad_text_box

\* C6 (as claimed): once the callbacks of submitting a valid number in the
\* sigma (radius) text box have finished, the sigma (radius) slider holds
\* the number rounded to two decimals and the image shown is the blur with
\* that parameter.
C6_TextToSlider ==
  /\ (Quiescent /\ event.kind = "submit_sigma" /\ CanParse(event.text)) =>
       /\ sigma_slider.v = Round2(Float(event.text)).v
       /\ im2[1] = Round2(Float(event.text)).v
  /\ (Quiescent /\ event.kind = "submit_rad" /\ CanParse(event.text)) =>
       /\ rad_slider.v = Round2(Float(event.text)).v
       /\ im2[2] = IntOf(Round2(Float(event.text))).v

\* C7 (as claimed): once the callbacks of submitting a text that is no
\* number have finished, both slider values and the image shown are what
\* they were before the submission.
C7_InvalidIgnored ==
  (Quiescent /\ event.kind \in {"submit_sigma", "submit_rad"} /\ ~CanParse(event.text)) =>
    /\ sigma_slider.v = pre.sigma_slider.v
    /\ rad_slider.v = pre.rad_slider.v
    /\ im2 = pre.im2

\* C11: after any single user event (a slider move or a text submission,
\* valid or not) the chain of update_slider / update_text_box calls made
\* through set_val is finite: the callbacks never nest deeper than 7, and
\* from every state with a callback running the widgets reach a quiescent
\* state, where no callback is pending.  Checked under SpecVisuFair.
C11_CascadeTerminates ==
  /\ [](Len(stack) <= 7)
  /\ (~Quiescent ~> Quiescent)

\* C11 witness: a sigma-slider move has set off callbacks nested 7 deep, the
\* innermost an update_slider called from update_text_box.
C11_Witness ==
  /\ event.kind = "move_sigma"
  /\ Len(stack) = 7
  /\ Top.fn = "update_slider"
  /\ stack[Len(stack) - 1].fn = "update_text_box"

(***************************************************************************)
(* Claims about the networks (checked under SpecNet).                      *)
(***************************************************************************)
Forwarded == netpc = "forwarded"
Div32 == x_in.h % 32 = 0 /\ x_in.w % 32 = 0

\* C8 (as claimed): for every (batch, 2, H, W) input with H and W divisible
\* by 32 the first element u2net_full's network returns has shape
\* (batch, 1, H, W) in both modes, no stage having been handed a channel
\* count it was not built for; and UNetDeepMass([1, 1]) maps (batch, 1, H, W)
\* to (batch, 1, H, W).
C8_OutputShape ==
  (Forwarded /\ Div32) =>
    /\ (net.kind = "U2Net" /\ x_in.c = 2) =>
         /\ ~result.out.raised
         /\ result.out.ret[1] = Tensor(x_in.b, 1, x_in.h, x_in.w)
    /\ (net.kind = "UNetDeepMass" /\ x_in.c = 1) =>
         /\ ~result.out.raised
         /\ result.out.ret[1] = Tensor(x_in.b, 1, x_in.h, x_in.w)

\* C8 (amended): the same, for the U2Net in evaluation mode or, in training
\* mode, for inputs with batch * (H / 32) * (W / 32) > 1; a network in
\* training mode raises on a (1, 2, 32, 32) input.
C8_OutputShapeBatchNorm ==
  (Forwarded /\ Div32) =>
    /\ (net.kind = "U2Net" /\ x_in.c = 2) =>
         IF net.training /\ x_in.b * (x_in.h \div 32) * (x_in.w \div 32) = 1
         THEN result.out.raised
         ELSE /\ ~result.out.raised
              /\ result.out.ret[1] = Tensor(x_in.b, 1, x_in.h, x_in.w)
    /\ (net.kind = "UNetDeepMass" /\ x_in.c = 1) =>
         /\ ~result.out.raised
         /\ result.out.ret[1] = Tensor(x_in.b, 1, x_in.h, x_in.w)

\* C8 witness: a U2Net in 'laplacian_pyr' mode, still in training mode, has
\* returned for a (2, 2, 32, 64) input.
C8_Witness ==
  /\ Forwarded /\ net.kind = "U2Net" /\ net.mode = "laplacian_pyr" /\ net.training
  /\ x_in = Tensor(2, 2, 32, 64)
  /\ ~result.out.raised
  /\ Len(result.out.ret) = 7

\* C9: for a network built in '1x1conv' mode, the fused output at a pixel is
\* the unweighted average of the side outputs returned with it: out_conv has
\* one weight per side output, each 1/6, and bias 0.
C9_FusionIsAverage ==
  (Forwarded /\ net.kind = "U2Net" /\ net.mode = "1x1conv" /\ ~result.out.raised) =>
    /\ Len(result.out.ret) - 1 = Len(net.out_conv.w)
    /\ Len(result.sides) = Len(result.out.ret) - 1
    /\ \A i \in 1..Len(net.out_conv.w) : RatEq(net.out_conv.w[i], <<1, 6>>)
    /\ RatEq(net.out_conv.b, <<0, 1>>)
    /\ RatEq(result.fused, <<SumSeq(result.sides, Len(result.sides)), Len(result.sides)>>)

\* C9 witness: a network as constructed has returned, its side outputs at
\* the pixel differing from one another and not summing to 0.
C9_Witness ==
  /\ Forwarded /\ net.kind = "U2Net" /\ net.mode = "1x1conv" /\ net.training
  /\ ~result.out.raised
  /\ result.sides = <<2, -1, 0, 2, 2, 0>>
  /\ RatEq(result.fused, <<5, 6>>)

vars == <<batchVars, visuVars, netVars>>

Init == BatchInit /\ VisuOff /\ NetOff
Next == BatchNext
Spec == Init /\ [][Next]_vars

InitVisu == BatchOff /\ VisuInit /\ NetOff
SpecVisu == InitVisu /\ [][VisuNext]_vars

\* the interpreter keeps executing a callback that is running
SpecVisuFair == InitVisu /\ [][VisuNext]_vars /\ WF_vars(CallbackStep)

InitNet == BatchOff /\ VisuOff /\ NetInit
SpecNet == InitNet /\ [][NetNext]_vars

====
